---- MODULE Spec2Model ----
(***************************************************************************)
(* Diagnosis submission-and-report pipeline of the judicial-assistant      *)
(* backend: upload handler (multer), classifier invocation (PythonShell),  *)
(* storage adapter (SQLite tables users / diagnoses / reports) and report  *)
(* renderer (PDF / Word files in the reports directory).                   *)
(*                                                                         *)
(* Strings the code inspects character by character (file extensions and   *)
(* MIME types, matched against a regular expression) are sequences of      *)
(* one-character strings.  Chinese literals of the source are written in   *)
(* pinyin.  Numbers with a fraction (confidences, percentages) are         *)
(* integers in units of 1/100000.                                          *)
(***************************************************************************)
EXTENDS Integers, Sequences, FiniteSets, TLC

VARIABLES
    users,        \* rows of table users, in rowid order
    diagnoses,    \* rows of table diagnoses, in rowid order
    reports,      \* rows of table reports, in rowid order
    uploads,      \* file names present in uploads/images
    reportFiles,  \* the reports directory: file name -> content of the file
    reqs,         \* requests suspended at an await / asynchronous I/O
    nupload,      \* number of uploads stored so far (the uuids generated)
    nreport,      \* number of report generations started so far
    now,          \* the clock, in ticks of Date.now()
    pages,        \* the state (useState) of the browser's page components
    last          \* the handler step just taken: its request and its response

vars == <<users, diagnoses, reports, uploads, reportFiles, reqs, nupload, nreport, now,
         pages, last>>

---------------------------------------------------------------------------
(* Bounds of the model *)

\* uploads stored in one behaviour of Spec
MaxUploads == 2
\* uploads stored in one behaviour of SpecReport and SpecClock
MaxDiagnoses == 1
\* report generations started in one behaviour of SpecReport
MaxReports == 2
\* report generations started in one behaviour of SpecClock
MaxClockReports == 2
\* last value of the clock
MaxTime == 2
\* uploads stored in one behaviour of SpecClassify
MaxClassified == 2
\* report generations started in one behaviour of SpecDownload
MaxDownloadReports == 2
\* uploads stored in one behaviour of SpecLive
MaxLive == 2
\* registrations accepted or in progress in one behaviour of SpecAccounts
MaxRegistrations == 2
\* registrations accepted or in progress in one behaviour of SpecAll
MaxAllRegistrations == 1
\* report generations started in one behaviour of SpecAll
MaxAllReports == 1
\* clock ticks per second of CURRENT_TIMESTAMP (1000 in the program)
TicksPerSecond == 2

Null == "null"
\* a field that is absent from the request body
Undefined == "undefined"

Range(s) == {s[i] : i \in 1..Len(s)}

---------------------------------------------------------------------------
(* JavaScript values *)

\* an absent optional number is <<>>, a present one <<x>>
NoNum == <<>>
Num(x) == <<x>>

\* !!v for a string-valued field: undefined, null and '' are falsy
TruthyStr(v) == v \notin {Null, Undefined, ""}
\* !!v for a number-valued field: undefined and 0 are falsy
TruthyNum(v) == v # NoNum /\ v[1] # 0

\* v || d for strings
OrStr(v, d) == IF TruthyStr(v) THEN v ELSE d

UpperCase == <<"A","B","C","D","E","F","G","H","I","J","K","L","M",
               "N","O","P","Q","R","S","T","U","V","W","X","Y","Z">>
LowerCase == <<"a","b","c","d","e","f","g","h","i","j","k","l","m",
               "n","o","p","q","r","s","t","u","v","w","x","y","z">>

\* String.prototype.toLowerCase on the ASCII letters
toLowerCase(s) ==
    [i \in 1..Len(s) |->
        IF \E k \in 1..26 : UpperCase[k] = s[i]
        THEN LowerCase[CHOOSE k \in 1..26 : UpperCase[k] = s[i]]
        ELSE s[i]]

\* s has pat as a contiguous substring
Contains(s, pat) ==
    \E i \in 1..(Len(s) - Len(pat) + 1) : SubSeq(s, i, i + Len(pat) - 1) = pat

\* path.extname: from the last '.' to the end; '' when there is no '.' or the
\* only '.' is the first character
extname(name) ==
    LET dots == {i \in 1..Len(name) : name[i] = "."}
    IN  IF dots = {} THEN <<>>
        ELSE LET d == CHOOSE i \in dots : \A j \in dots : j <= i
             IN  IF d = 1 THEN <<>> ELSE SubSeq(name, d, Len(name))

\* JSON.stringify of a string value, and JSON.parse of the result
Quote == "\""
JSONstringify(v) == <<Quote, v, Quote>>
JSONparse(t) == t[2]

---------------------------------------------------------------------------
(* Upload handler: multer configuration of routes/diagnosis.js *)

\* limits.fileSize
fileSize == 10 * 1024 * 1024

\* allowedTypes = /jpeg|jpg|png|tiff|bmp/ ; RegExp.prototype.test
allowedTypes ==
    { <<"j","p","e","g">>, <<"j","p","g">>, <<"p","n","g">>,
      <<"t","i","f","f">>, <<"b","m","p">> }
allowedTypesTest(s) == \E pat \in allowedTypes : Contains(s, pat)

\* fileFilter: TRUE = cb(null, true), FALSE = cb(new Error(...))
fileFilter(file) ==
    LET ext  == allowedTypesTest(toLowerCase(extname(file.originalname)))
        mime == allowedTypesTest(file.mimetype)
    IN  ext /\ mime

\* storage.filename: `${uuidv4()}${ext}`; the n-th generated uuid is n
filename(n, file) == [uuid |-> n, ext |-> extname(file.originalname)]

---------------------------------------------------------------------------
(* Classifier invocation: services/cnnPredictor.js *)

\* the names every object literal inherits from Object.prototype, and the
\* value found under such a name (a function, or the prototype object)
ObjectPrototypeNames ==
    {"constructor", "toString", "toLocaleString", "valueOf", "hasOwnProperty",
     "isPrototypeOf", "propertyIsEnumerable", "__proto__"}
InheritedMember == "[member of Object.prototype]"

\* categories[className] on the object literal of getCategoryByClass: its
\* own entry, else the inherited member, else undefined
categories(className) ==
    CASE className \in {"FeiChuXue", "FeiShuiZhong", "FeiXueShuan", "FeiYan"}
           -> "FeiBuBingBian"
      [] className \in {"GuanXinBing", "XinJiXianWeiDuanLie", "XinJiYan"}
           -> "XinXueGuanBingBian"
      [] className \in {"NaoChuXue", "NaoShuiZhong", "NaoXueGuanJiXing",
                        "NaoZhuWangMoXiaQiangYuXue"}
           -> "NaoBuBingBian"
      [] className = "GanZhiFangBianXing" -> "GanZangBingBian"
      [] className = "PiXiaoDongMaiBoLiYangGaiBian" -> "PiZangBingBian"
      [] className = "ShenXiaoQiuXianWeiHua" -> "ShenZangBingBian"
      [] className = "YiXianYan" -> "YiXianBingBian"
      [] className \in ObjectPrototypeNames -> InheritedMember
      [] OTHER -> Undefined

\* categories[className] || 'QiTaBingBian'
getCategoryByClass(className) == OrStr(categories(className), "QiTaBingBian")

\* predictImage without the check of predicted_class: it resolves with
\* whatever the last message holds
predictImageNoClassCheck(py) ==
    IF py.err THEN [ok |-> FALSE, error |-> "MoXingYuCeShiBai"]
    ELSE IF py.isNull \/ Len(py.results) = 0
    THEN [ok |-> FALSE, error |-> "JieXiYuCeJieGuoShiBai"]
    ELSE LET result == py.results[Len(py.results)]
         IN  [ok |-> TRUE,
              value |->
                [result |-> result.predicted_class,
                 confidence |->
                    IF TruthyNum(result.confidence) THEN result.confidence[1]
                    ELSE IF TruthyNum(result.probability) THEN result.probability[1]
                    ELSE 0,
                 all_predictions |-> result.all_predictions,
                 diagnosis_type |->
                    IF TruthyStr(result.category) THEN result.category
                    ELSE getCategoryByClass(result.predicted_class),
                 details |-> [top_predictions |-> result.top_k]]]

\* The callback of PythonShell.run inside predictImage.  py is what the
\* subprocess delivered: err, and results (isNull: results is null).
\* ok = TRUE is resolve(value), ok = FALSE is reject(new Error(error)).
rejected(msg) == [ok |-> FALSE, error |-> msg]
predictImage(py) ==
    IF py.err THEN rejected("MoXingYuCeShiBai")
    ELSE IF py.isNull THEN rejected("JieXiYuCeJieGuoShiBai")
    ELSE LET n == Len(py.results)
         IN  IF n = 0 \/ py.results[n].kind # "object"
                      \/ ~TruthyStr(py.results[n].predicted_class)
             THEN rejected("MoXingFanHuiJieGuoWuXiao")
             ELSE LET result == py.results[n]
                  IN  [ok |-> TRUE,
                       value |->
                         [result |-> result.predicted_class,
                          confidence |->
                             IF TruthyNum(result.confidence) THEN result.confidence[1]
                             ELSE IF TruthyNum(result.probability) THEN result.probability[1]
                             ELSE 0,
                          all_predictions |-> result.all_predictions,
                          diagnosis_type |->
                             IF TruthyStr(result.category) THEN result.category
                             ELSE getCategoryByClass(result.predicted_class),
                          details |-> [top_predictions |-> result.top_k]]]

---------------------------------------------------------------------------
(* Storage adapter: services/database.js *)

\* CURRENT_TIMESTAMP: the clock in whole seconds
CURRENT_TIMESTAMP == now \div TicksPerSecond

\* bcrypt.hash and bcrypt.compare: the hash is checked against the password
bcryptHash(password) == <<"bcrypt", password>>
bcryptCompare(password, hash) == hash = bcryptHash(password)

\* initDefaultUsers on an empty database
initDefaultUsers ==
    << [id |-> 1, username |-> "admin", password |-> bcryptHash("admin123"),
        name |-> "XiTongGuanLiYuan", role |-> "admin"],
       [id |-> 2, username |-> "forensic", password |-> bcryptHash("forensic123"),
        name |-> "ShiYanFaYi", role |-> "forensic"] >>

\* stmt.run binds numbers, strings, bigints, buffers and null only: a
\* parameter that is a function or an object makes it throw a TypeError
bindable(v) == v # InheritedMember

\* INSERT INTO diagnoses: the table after the insert (lastInsertRowid is its length)
createDiagnosis(data) ==
    Append(diagnoses,
        [id |-> Len(diagnoses) + 1,
         user_id |-> data.user_id,
         patient_name |-> OrStr(data.patient_name, Null),
         patient_id |-> OrStr(data.patient_id, Null),
         image_path |-> data.image_path,
         prediction_result |-> JSONstringify(data.prediction_result),
         confidence |-> data.confidence,
         diagnosis_type |-> OrStr(data.diagnosis_type, Null),
         notes |-> OrStr(data.notes, Null),
         created_at |-> CURRENT_TIMESTAMP])

\* ORDER BY created_at DESC over rows in rowid order: the rows of second s
\* down to second 0, each group in rowid order
RECURSIVE orderByCreatedAtDesc(_, _)
orderByCreatedAtDesc(rows, s) ==
    IF s < 0 THEN <<>>
    ELSE SelectSeq(rows, LAMBDA d : d.created_at = s)
            \o orderByCreatedAtDesc(rows, s - 1)

\* d.* , u.name as doctor_name FROM diagnoses d JOIN users u ON d.user_id = u.id
RECURSIVE joinUsers(_)
joinUsers(rows) ==
    IF rows = <<>> THEN <<>>
    ELSE LET d == Head(rows)
             us == SelectSeq(users, LAMBDA u : u.id = d.user_id)
         IN  [i \in 1..Len(us) |->
                 [id |-> d.id, user_id |-> d.user_id,
                  patient_name |-> d.patient_name, patient_id |-> d.patient_id,
                  image_path |-> d.image_path,
                  prediction_result |-> d.prediction_result,
                  confidence |-> d.confidence, diagnosis_type |-> d.diagnosis_type,
                  notes |-> d.notes, created_at |-> d.created_at,
                  doctor_name |-> us[i].name]]
             \o joinUsers(Tail(rows))

\* getDiagnoses without the WHERE clause of the non-admin query
getDiagnosesNoWhere(userId, role) ==
    IF role = "admin"
    THEN orderByCreatedAtDesc(joinUsers(diagnoses), MaxTime \div TicksPerSecond)
    ELSE orderByCreatedAtDesc(diagnoses, MaxTime \div TicksPerSecond)

\* getDiagnoses whose admin query also filters by the caller's id
getDiagnosesAdminOwn(userId, role) ==
    IF role = "admin"
    THEN orderByCreatedAtDesc(
            joinUsers(SelectSeq(diagnoses, LAMBDA d : d.user_id = userId)),
            MaxTime \div TicksPerSecond)
    ELSE orderByCreatedAtDesc(SelectSeq(diagnoses, LAMBDA d : d.user_id = userId),
                              MaxTime \div TicksPerSecond)

getDiagnoses(userId, role) ==
    IF role = "admin"
    THEN orderByCreatedAtDesc(joinUsers(diagnoses), MaxTime \div TicksPerSecond)
    ELSE orderByCreatedAtDesc(SelectSeq(diagnoses, LAMBDA d : d.user_id = userId),
                              MaxTime \div TicksPerSecond)

\* the results the query may deliver: ORDER BY created_at DESC fixes the
\* order of rows of different seconds only, rows of the same second come in
\* an order SQLite is free to choose
orderAmongEqualKeys(rows) ==
    { [i \in 1..Len(rows) |-> rows[p[i]]] :
        p \in { q \in [1..Len(rows) -> 1..Len(rows)] :
                  /\ \A i, j \in 1..Len(rows) : i # j => q[i] # q[j]
                  /\ \A i, j \in 1..Len(rows) :
                        i < j => rows[q[i]].created_at >= rows[q[j]].created_at } }

\* SELECT * FROM diagnoses WHERE id = ? ; <<>> when there is no row, else <<row>>
getDiagnosisById(id) == SelectSeq(diagnoses, LAMBDA d : d.id = id)

\* createReport that records the id of the row after the diagnosis
createReportNextId(diagnosisId, userId, reportType, filePath) ==
    Append(reports,
        [id |-> Len(reports) + 1, diagnosis_id |-> diagnosisId + 1, user_id |-> userId,
         report_type |-> reportType, file_path |-> filePath,
         created_at |-> CURRENT_TIMESTAMP])

\* INSERT INTO reports: the table after the insert
createReport(diagnosisId, userId, reportType, filePath) ==
    Append(reports,
        [id |-> Len(reports) + 1, diagnosis_id |-> diagnosisId, user_id |-> userId,
         report_type |-> reportType, file_path |-> filePath,
         created_at |-> CURRENT_TIMESTAMP])


---------------------------------------------------------------------------
(* Report renderer: services/reportGenerator.js *)

\* `ZhenDuanBaoGao_${diagnosis.id}_${Date.now()}.pdf` (.docx for Word)
reportFilename(diagnosis, ext) ==
    [prefix |-> "ZhenDuanBaoGao", id |-> diagnosis.id, ts |-> now, ext |-> ext]

\* generatePDFReport / generateWordReport up to their first suspension:
\* the path the report will be written to
generateReportPath(diagnosis, report_type) ==
    IF report_type = "pdf" THEN reportFilename(diagnosis, ".pdf")
    ELSE reportFilename(diagnosis, ".docx")

\* Number.prototype.toFixed(2) with truncation instead of rounding
toFixed2Truncating(v) ==
    LET a == IF v < 0 THEN 0 - v ELSE v
        n == a \div 1000
    IN  [neg |-> v < 0 /\ n # 0, whole |-> n \div 100,
         d1 |-> (n \div 10) % 10, d2 |-> n % 10]

\* Number.prototype.toFixed(2): the nearest number of hundredths, written
\* as sign, integer part and two decimal digits
toFixed2(v) ==
    LET a == IF v < 0 THEN 0 - v ELSE v
        n == (a + 500) \div 1000
    IN  [neg |-> v < 0 /\ n # 0, whole |-> n \div 100,
         d1 |-> (n \div 10) % 10, d2 |-> n % 10]

\* the text both generators put into the document: the lines of the body
\* that depend on the record.  The PDF has the notes section only when
\* notes is truthy; the Word document prints 'Wu' for missing notes.
reportContent(diagnosis, user, report_type) ==
    [format |-> IF report_type = "pdf" THEN "pdf" ELSE "docx",
     BaoGaoBianHao |-> diagnosis.id,
     JianDingYiShi |-> user.name,
     HuanZheXingMing |-> OrStr(diagnosis.patient_name, "WeiTianXie"),
     HuanZheID |-> OrStr(diagnosis.patient_id, "WeiTianXie"),
     ZhenDuanLeiXing |-> OrStr(diagnosis.diagnosis_type, "ZongHeZhenDuan"),
     ZhuYaoZhenDuan |-> diagnosis.prediction_result,
     ZhiXinDu |-> <<toFixed2(diagnosis.confidence * 100), "%">>,
     YiShiBeiZhu |->
        IF report_type = "pdf"
        THEN (IF TruthyStr(diagnosis.notes) THEN <<diagnosis.notes>> ELSE <<>>)
        ELSE <<OrStr(diagnosis.notes, "Wu")>>]

\* what a write that failed half-way leaves in the file
PartialContent == [format |-> "partial"]

\* the reports directory after content is written to path
writeFile(files, path, content) == (path :> content) @@ files

---------------------------------------------------------------------------
(* Request inputs *)

\* req.user as set by authenticateToken: the payload of a token issued to a user
authenticateToken ==
    {[id |-> u.id, username |-> u.username, role |-> u.role, name |-> u.name] :
        u \in Range(users)}

NoUpload == [present |-> FALSE]
Upload(name, mime, bytes) ==
    [present |-> TRUE, originalname |-> name, mimetype |-> mime, size |-> bytes]

MimeJpeg == <<"i","m","a","g","e","/","j","p","e","g">>
MimeTiff == <<"i","m","a","g","e","/","t","i","f","f">>
MimeApng == <<"i","m","a","g","e","/","a","p","n","g">>
MimeText == <<"t","e","x","t","/","p","l","a","i","n">>

UploadJpg == Upload(<<"a",".","j","p","g">>, MimeJpeg, 2 * 1024 * 1024)
UploadBig == Upload(<<"a",".","j","p","g">>, MimeJpeg, 10 * 1024 * 1024 + 1)
UploadTxt == Upload(<<"a",".","t","x","t">>, MimeText, 2 * 1024 * 1024)
UploadTif == Upload(<<"a",".","t","i","f">>, MimeTiff, 2 * 1024 * 1024)
UploadApng == Upload(<<"a",".","a","p","n","g">>, MimeApng, 2 * 1024 * 1024)

\* the uploads a client sends
Uploads == {NoUpload, UploadJpg, UploadBig, UploadTxt, UploadTif, UploadApng}

\* the multipart text fields of POST /predict
Bodies ==
    { [patient_name |-> "ZhangSan", patient_id |-> "P001", notes |-> Null],
      [patient_name |-> "", patient_id |-> Null, notes |-> "BeiZhu"] }

\* one JSON line printed by main.py
Message(class, conf, prob, cat) ==
    [kind |-> "object", predicted_class |-> class, confidence |-> conf,
     probability |-> prob, category |-> cat, all_predictions |-> <<>>, top_k |-> <<>>]
MsgFeiYan == Message("FeiYan", Num(87656), NoNum, Null)
MsgNoClass == Message(Null, Num(99000), NoNum, Null)

\* what the subprocess delivers to the callback of PythonShell.run
PyRun(e, isnull, msgs) == [err |-> e, isNull |-> isnull, results |-> msgs]
PyOk == PyRun(FALSE, FALSE, <<MsgFeiYan>>)
PyErr == PyRun(TRUE, TRUE, <<>>)
PyOutcomes ==
    { PyErr,
      PyRun(FALSE, TRUE, <<>>),
      PyRun(FALSE, FALSE, <<>>),
      PyRun(FALSE, FALSE, <<MsgNoClass>>),
      PyRun(FALSE, FALSE, <<MsgFeiYan, MsgNoClass>>),
      PyOk,
      PyRun(FALSE, FALSE, <<MsgNoClass, MsgFeiYan>>) }

\* messages of a classifier that supplies a category, emits a label outside
\* the table, emits a label that names a member of Object.prototype, reports
\* the confidence on a scale of 100, below 0, not at all, or as 0 next to a
\* probability above 1
MsgCategory == Message("FeiYan", Num(50000), NoNum, "ZiDingYiLeiBie")
MsgUnknown == Message("WeiZhiBingBian", NoNum, Num(30000), Null)
MsgConstructor == Message("constructor", Num(90000), NoNum, Null)
MsgPercent == Message("GuanXinBing", Num(8700000), NoNum, Null)
MsgNegative == Message("XinJiYan", Num(0 - 10000), NoNum, Null)
MsgNoConfidence == Message("NaoChuXue", NoNum, NoNum, "")
MsgProbability == Message("GanZhiFangBianXing", Num(0), Num(150000), Null)
\* a message with the ranked alternatives
MsgRanked ==
    [Message("FeiYan", Num(70000), NoNum, Null) EXCEPT
        !.all_predictions = << [label |-> "FeiYan", probability |-> 70000],
                               [label |-> "FeiShuiZhong", probability |-> 20000] >>]

\* what the subprocess delivers when the claims are about the prediction
ClassifierOutcomes ==
    { PyErr, PyOk } \cup
    { PyRun(FALSE, FALSE, <<m>>) :
        m \in {MsgCategory, MsgUnknown, MsgConstructor, MsgPercent, MsgNegative,
               MsgNoConfidence, MsgProbability, MsgRanked} }

\* req.params.id
Ids == 1..(MaxUploads + 1)

\* req.body.report_type
ReportTypes == {"pdf", "word", "html", Null}

\* how the write of a report ends
GenOutcomes == {"finish", "error_nofile", "error_partial"}

---------------------------------------------------------------------------
(* Browser pages: ForensicClinical, PathologyAI and NursingAssessment *)

\* the variables of the server, which no page component writes
server == <<users, diagnoses, reports, uploads, reportFiles, reqs, nupload, nreport, now, last>>

\* values a useState cell of a page can hold besides objects
JsNull == [is |-> "null"]
JsUndefined == [is |-> "undefined"]

\* an object is truthy, null and undefined are not: {result && (...)}
truthy(v) == "is" \notin DOMAIN v

\* obj.k, undefined when the object has no such member
member(obj, k) == IF k \in DOMAIN obj THEN obj[k] ELSE JsUndefined

\* URL.createObjectURL(f)
createObjectURL(f) == <<"blob:", f>>

\* the pages with an upload zone and an analysis button
AnalyzePages == {"ForensicClinical", "PathologyAI"}

\* the files a user drops on an upload zone
DroppedFiles == {"slide.png", "xray.jpg"}

\* the request of handleAnalyze: none made, awaited, or settled
NoRequest == [state |-> "none"]
Pending == [state |-> "pending"]

\* the diagnosis objects a server sends in the data member of its body
ServerResult ==
    [ForensicClinical |->
        [prediction_result |-> "WuGuZhe", confidence |-> 97000,
         details |-> [fracture_count |-> 0, positions |-> <<>>, timing |-> ""]],
     PathologyAI |->
        [prediction |-> "ZhengChangZuZhi", confidence |-> 95000,
         details |-> [tissue_type |-> "GanZuZhi", findings |-> <<>>,
                      characteristics |-> ""]]]

\* no response arrived: the network failed, or the call threw before sending
NoResponse == [state |-> "settled", received |-> FALSE, status |-> 0, body |-> <<>>]

\* the ways the request of handleAnalyze settles: no response at all
\* (received FALSE), or a response with a status and a body, the body
\* <<>> when it is not JSON and <<object>> when it parses to the object
Outcomes(p) ==
    { NoResponse,
      [state |-> "settled", received |-> TRUE, status |-> 200,
       body |-> <<[success |-> TRUE, data |-> ServerResult[p]]>>],
      [state |-> "settled", received |-> TRUE, status |-> 200,
       body |-> <<[success |-> TRUE]>>],
      [state |-> "settled", received |-> TRUE, status |-> 404, body |-> <<>>],
      [state |-> "settled", received |-> TRUE, status |-> 500,
       body |-> <<[error |-> "FenXiShiBai"]>>] }

\* import { api } from '../services/api': the module exports authAPI,
\* diagnosisAPI, userAPI and a default, and no member named api
api == JsUndefined

\* api.post: a TypeError when api is undefined; otherwise axios rejects when
\* no response arrives and when the status is not 2xx, and res.data is the
\* parsed body, or the text of a body that is not JSON
apiPost(o) ==
    IF ~truthy(api) THEN [rejected |-> TRUE, data |-> JsUndefined]
    ELSE IF o.received /\ o.status \in 200..299
    THEN [rejected |-> FALSE,
          data |-> IF o.body = <<>> THEN JsUndefined ELSE o.body[1]]
    ELSE [rejected |-> TRUE, data |-> JsUndefined]

\* fetch rejects only when no response arrives, whatever the status;
\* res.json() rejects when the body is not JSON
fetchJson(o) ==
    IF o.received /\ o.body # <<>>
    THEN [rejected |-> FALSE, data |-> o.body[1]]
    ELSE [rejected |-> TRUE, data |-> JsUndefined]

\* the object ForensicClinical.handleAnalyze sets in its catch block
ribFractureCatch ==
    [prediction_result |-> "LeiGuGuZhe", confidence |-> 92000,
     details |-> [fracture_count |-> 3,
                  positions |-> <<"ZuoCeDi4Lei", "ZuoCeDi5Lei", "ZuoCeDi6Lei">>,
                  timing |-> "XinXianGuZhe(Yue1-2Zhou)"]]

\* the object PathologyAI.handleAnalyze sets in its catch block
pathologyCatch ==
    [prediction |-> "SunShangBingLiGaiBian", confidence |-> 89000,
     details |-> [tissue_type |-> "FeiZuZhi",
                  findings |-> <<"FeiPaoBiDuanLie", "FeiQiZhongGaiBian",
                                 "QingDuYanZhengXiBaoJinRun">>,
                  characteristics |-> "FuHeWaiLiZuoYongHouDeBingLiGaiBian"]]

\* the try / catch of handleAnalyze after the await: the value given to
\* setResult
analyzed(p, o) ==
    LET res == IF p = "ForensicClinical" THEN apiPost(o) ELSE fetchJson(o)
    IN  IF ~res.rejected THEN member(res.data, "data")
        ELSE IF p = "ForensicClinical" THEN ribFractureCatch
        ELSE pathologyCatch

\* useState of an analysis page
useStateAnalyze ==
    [file |-> Null, preview |-> <<>>, loading |-> FALSE, result |-> JsNull,
     request |-> NoRequest]

\* NursingAssessment: the options of a select, the scores table, the form
options ==
    <<"WanQuanYiLai", "HenDaChengDuYiLai", "ZhongDengChengDuYiLai",
      "HenXiaoChengDuYiLai", "WanQuanZiLi">>

scores ==
    [WanQuanYiLai |-> 1, HenDaChengDuYiLai |-> 2, ZhongDengChengDuYiLai |-> 3,
     HenXiaoChengDuYiLai |-> 4, WanQuanZiLi |-> 5]

FormKeys == <<"age", "feeding", "dressing", "bathing", "mobility", "toilet", "control">>

emptyForm == [k \in Range(FormKeys) |-> ""]

\* what <input type="number"> gives for the age: '' or the text of a number
Ages == {"", "65"}

\* what a select gives: '' (qing xuan ze) or one of the options
Selected == {""} \cup Range(options)

\* the forms the inputs of the page can produce
EnterableForms ==
    [age : Ages, feeding : Selected, dressing : Selected, bathing : Selected,
     mobility : Selected, toilet : Selected, control : Selected]

\* scores[v] || 0
scoreOf(v) == IF v \in DOMAIN scores THEN scores[v] ELSE 0

RECURSIVE reduceScores(_, _)
reduceScores(form, i) ==
    IF i = 0 THEN 0 ELSE reduceScores(form, i - 1) + scoreOf(form[FormKeys[i]])

levelOf(total) ==
    IF total <= 20 THEN "YiJiHuLiYiLai"
    ELSE IF total <= 30 THEN "ErJiHuLiYiLai"
    ELSE IF total <= 40 THEN "SanJiHuLiYiLai"
    ELSE "SiJiHuLiYiLai"

\* the object calculateScore gives to setResult
calculateScore(form) ==
    LET total == reduceScores(form, Len(FormKeys))
    IN  [total |-> total, level |-> levelOf(total)]

\* Object.values(form).every(v => v): the button is enabled
everyFilled(form) == \A k \in Range(FormKeys) : form[k] # ""

PagesInit ==
    [ForensicClinical |-> useStateAnalyze,
     PathologyAI |-> useStateAnalyze,
     NursingAssessment |-> [form |-> emptyForm, result |-> JsNull]]

\* a file is dropped on the upload zone of page p
OnDrop(p, f) ==
    /\ pages' = [pages EXCEPT ![p].file = f,
                              ![p].preview = createObjectURL(f),
                              ![p].result = JsNull]
    /\ UNCHANGED server

\* the button "yi chu tu pian", shown while there is a preview
RemoveImage(p) ==
    /\ pages[p].preview # <<>>
    /\ pages' = [pages EXCEPT ![p].file = Null,
                              ![p].preview = <<>>,
                              ![p].result = JsNull]
    /\ UNCHANGED server

\* handleAnalyze up to its await; the button is disabled without a file and
\* while loading.  In ForensicClinical api.post throws before anything is
\* awaited, so catch and finally run in the same step
HandleAnalyze(p) ==
    /\ pages[p].file # Null
    /\ ~pages[p].loading
    /\ IF p = "ForensicClinical" /\ ~truthy(api)
       THEN pages' = [pages EXCEPT ![p].result = analyzed(p, NoResponse),
                                   ![p].loading = FALSE,
                                   ![p].request = NoResponse]
       ELSE pages' = [pages EXCEPT ![p].loading = TRUE, ![p].request = Pending]
    /\ UNCHANGED server

\* handleAnalyze from its await on: try or catch, then finally
HandleAnalyzeSettled(p, o) ==
    /\ pages[p].request = Pending
    /\ pages' = [pages EXCEPT ![p].result = analyzed(p, o),
                              ![p].loading = FALSE,
                              ![p].request = o]
    /\ UNCHANGED server

\* the button "ji suan ping gu" of NursingAssessment, enabled when every
\* field of the form is filled
CalculateScore ==
    /\ everyFilled(pages.NursingAssessment.form)
    /\ pages' = [pages EXCEPT
                   !.NursingAssessment.result =
                       calculateScore(pages.NursingAssessment.form)]
    /\ UNCHANGED server

---------------------------------------------------------------------------
(* Routes: routes/diagnosis.js, mounted by index.js *)

\* index.js installs no error-handling middleware: an error passed to next()
\* by the upload middleware is answered by Express's default handler
expressDefaultErrorStatus == 500

\* the body of the response of the upload stage of /predict: the handler's
\* own 400 is res.json({ error }), an error passed to next() is answered by
\* Express's default error handler with an HTML page, 0 is no response yet
uploadReplyOf(status) ==
    IF status = 0 THEN "none"
    ELSE IF status = expressDefaultErrorStatus THEN "html"
    ELSE "json"

\* no handler step is being returned from
NoLast == [op |-> "none"]

Init ==
    /\ users = initDefaultUsers
    /\ diagnoses = <<>>
    /\ reports = <<>>
    /\ uploads = {}
    /\ reportFiles = <<>>
    /\ reqs = {}
    /\ nupload = 0
    /\ nreport = 0
    /\ now = 0
    /\ pages = PagesInit
    /\ last = NoLast

\* the clock advances
Tick ==
    /\ last = NoLast
    /\ now < MaxTime
    /\ now' = now + 1
    /\ UNCHANGED pages
    /\ UNCHANGED <<users, diagnoses, reports, uploads, reportFiles, reqs,
                   nupload, nreport, last>>

\* a handler step ends (the response, if any, is sent) and the event loop
\* takes the next event
Return ==
    /\ last # NoLast
    /\ last' = NoLast
    /\ UNCHANGED pages
    /\ UNCHANGED <<users, diagnoses, reports, uploads, reportFiles, reqs,
                   nupload, nreport, now>>

\* upload.single('image') and the first check of the /predict handler:
\* the status answered at once, or 0 when the file starts to be stored
postPredictUpload(upload) ==
    IF ~upload.present THEN 400
    ELSE IF ~fileFilter(upload) THEN expressDefaultErrorStatus
    ELSE 0

\* POST /predict arrives
PostPredict(user, upload, body) ==
    /\ last = NoLast
    /\ LET status == postPredictUpload(upload)
       IN  /\ last' = [op |-> "predict", step |-> "upload", user |-> user,
                       upload |-> upload, done |-> status # 0, status |-> status,
                       reply |-> uploadReplyOf(status)]
           /\ IF status = 0
              THEN /\ nupload' = nupload + 1
                   /\ uploads' = uploads \cup {filename(nupload + 1, upload)}
                   /\ reqs' = reqs \cup
                         {[n |-> nupload + 1, op |-> "predict", pc |-> "uploading",
                           user |-> user, upload |-> upload, body |-> body,
                           path |-> filename(nupload + 1, upload)]}
              ELSE UNCHANGED <<nupload, uploads, reqs>>
    /\ UNCHANGED pages
    /\ UNCHANGED <<users, diagnoses, reports, reportFiles, nreport, now>>

\* the upload stream ends: over the size limit multer removes the stored file
\* and passes LIMIT_FILE_SIZE to next(); otherwise the handler runs and
\* predictImage starts the subprocess
PostPredictStored(r) ==
    /\ last = NoLast
    /\ r.op = "predict"
    /\ r.pc = "uploading"
    /\ IF r.upload.size > fileSize
       THEN /\ uploads' = uploads \ {r.path}
            /\ reqs' = reqs \ {r}
            /\ last' = [op |-> "predict", step |-> "stored", user |-> r.user,
                        upload |-> r.upload, path |-> r.path, done |-> TRUE,
                        status |-> expressDefaultErrorStatus,
                        reply |-> uploadReplyOf(expressDefaultErrorStatus)]
       ELSE /\ uploads' = uploads
            /\ reqs' = (reqs \ {r}) \cup {[r EXCEPT !.pc = "predicting"]}
            /\ last' = [op |-> "predict", step |-> "stored", user |-> r.user,
                        upload |-> r.upload, path |-> r.path, done |-> FALSE,
                        status |-> 0, reply |-> uploadReplyOf(0)]
    /\ UNCHANGED pages
    /\ UNCHANGED <<users, diagnoses, reports, reportFiles, nupload, nreport, now>>

\* /predict whose imagePath is shared by all requests (a module-level
\* variable): the record gets the path of the upload stored last
postPredictFinishSharedPath(r, py) ==
    LET prediction == predictImage(py)
    IN  IF prediction.ok /\ ~bindable(OrStr(prediction.value.diagnosis_type, Null))
        THEN [status |-> 500, diagnoses |-> diagnoses, diagnosis_id |-> 0,
              prediction |-> prediction, error |-> "TypeError"]
        ELSE IF prediction.ok
        THEN [status |-> 200,
              diagnoses |->
                 createDiagnosis(
                    [user_id |-> r.user.id,
                     patient_name |-> r.body.patient_name,
                     patient_id |-> r.body.patient_id,
                     image_path |-> [uuid |-> nupload, ext |-> r.path.ext],
                     prediction_result |-> prediction.value.result,
                     confidence |-> prediction.value.confidence,
                     diagnosis_type |-> prediction.value.diagnosis_type,
                     notes |-> r.body.notes]),
              diagnosis_id |-> Len(diagnoses) + 1,
              prediction |-> prediction, error |-> ""]
        ELSE [status |-> 500, diagnoses |-> diagnoses, diagnosis_id |-> 0,
              prediction |-> prediction,
              error |-> OrStr(prediction.error, "YuCeShiBai")]

\* the rest of the /predict handler once predictImage settles
postPredictFinish(r, py) ==
    LET prediction == predictImage(py)
    IN  IF prediction.ok /\ ~bindable(OrStr(prediction.value.diagnosis_type, Null))
        THEN [status |-> 500, diagnoses |-> diagnoses, diagnosis_id |-> 0,
              prediction |-> prediction, error |-> "TypeError"]
        ELSE IF prediction.ok
        THEN [status |-> 200,
              diagnoses |->
                 createDiagnosis(
                    [user_id |-> r.user.id,
                     patient_name |-> r.body.patient_name,
                     patient_id |-> r.body.patient_id,
                     image_path |-> r.path,
                     prediction_result |-> prediction.value.result,
                     confidence |-> prediction.value.confidence,
                     diagnosis_type |-> prediction.value.diagnosis_type,
                     notes |-> r.body.notes]),
              diagnosis_id |-> Len(diagnoses) + 1,
              prediction |-> prediction, error |-> ""]
        ELSE [status |-> 500, diagnoses |-> diagnoses, diagnosis_id |-> 0,
              prediction |-> prediction,
              error |-> OrStr(prediction.error, "YuCeShiBai")]

\* a callback that PythonShell.run calls again for the same request: the
\* request stays suspended after it was answered
PostPredictCallbackAgain(r, py) ==
    /\ last = NoLast
    /\ r.op = "predict"
    /\ r.pc = "predicting"
    /\ LET res == postPredictFinish(r, py)
       IN  /\ diagnoses' = res.diagnoses
           /\ last' = [op |-> "predict", step |-> "callback", user |-> r.user,
                       upload |-> r.upload, path |-> r.path, py |-> py,
                       done |-> TRUE, status |-> res.status, reply |-> "json",
                       diagnosis_id |-> res.diagnosis_id,
                       prediction |-> res.prediction, error |-> res.error]
    /\ reqs' = reqs
    /\ UNCHANGED pages
    /\ UNCHANGED <<users, reports, uploads, reportFiles, nupload, nreport, now>>

\* the subprocess ends and the callback of PythonShell.run runs
PostPredictCallback(r, py) ==
    /\ last = NoLast
    /\ r.op = "predict"
    /\ r.pc = "predicting"
    /\ LET res == postPredictFinish(r, py)
       IN  /\ diagnoses' = res.diagnoses
           /\ last' = [op |-> "predict", step |-> "callback", user |-> r.user,
                       upload |-> r.upload, path |-> r.path, py |-> py,
                       done |-> TRUE, status |-> res.status, reply |-> "json",
                       diagnosis_id |-> res.diagnosis_id,
                       prediction |-> res.prediction, error |-> res.error]
    /\ reqs' = reqs \ {r}
    /\ UNCHANGED pages
    /\ UNCHANGED <<users, reports, uploads, reportFiles, nupload, nreport, now>>

\* GET /list
GetList(user) ==
    /\ last = NoLast
    /\ \E data \in orderAmongEqualKeys(getDiagnoses(user.id, user.role)) :
          last' = [op |-> "list", user |-> user, done |-> TRUE, status |-> 200,
                   reply |-> "json", data |-> data]
    /\ UNCHANGED pages
    /\ UNCHANGED <<users, diagnoses, reports, uploads, reportFiles, reqs,
                   nupload, nreport, now>>

\* GET /:id with || for && in the authorization check
getDiagnosisRouteOr(user, id) ==
    LET diagnosis == getDiagnosisById(id)
    IN  IF diagnosis = <<>> THEN [status |-> 404, data |-> <<>>]
        ELSE IF diagnosis[1].user_id # user.id \/ user.role # "admin"
        THEN [status |-> 403, data |-> <<>>]
        ELSE [status |-> 200, data |-> diagnosis]

\* the decisions of GET /:id
getDiagnosisRoute(user, id) ==
    LET diagnosis == getDiagnosisById(id)
    IN  IF diagnosis = <<>> THEN [status |-> 404, data |-> <<>>]
        ELSE IF diagnosis[1].user_id # user.id /\ user.role # "admin"
        THEN [status |-> 403, data |-> <<>>]
        ELSE [status |-> 200, data |-> diagnosis]

\* GET /:id
GetById(user, id) ==
    /\ last = NoLast
    /\ last' = [op |-> "get", user |-> user, id |-> id, done |-> TRUE,
                reply |-> "json",
                status |-> getDiagnosisRoute(user, id).status,
                data |-> getDiagnosisRoute(user, id).data]
    /\ UNCHANGED pages
    /\ UNCHANGED <<users, diagnoses, reports, uploads, reportFiles, reqs,
                   nupload, nreport, now>>

\* POST /:id/report that renders a Word report for every type but 'pdf'
postReportCheckNoTypeCheck(user, id, report_type) ==
    LET diagnosis == getDiagnosisById(id)
    IN  IF diagnosis = <<>> THEN 404
        ELSE IF diagnosis[1].user_id # user.id /\ user.role # "admin" THEN 403
        ELSE 0

\* POST /:id/report without the authorization check
postReportCheckNoAuth(user, id, report_type) ==
    LET diagnosis == getDiagnosisById(id)
    IN  IF diagnosis = <<>> THEN 404
        ELSE IF report_type = "pdf" \/ report_type = "word" THEN 0
        ELSE 400

\* the decisions of POST /:id/report before a report is generated:
\* the status answered at once, or 0 when generation starts
postReportCheck(user, id, report_type) ==
    LET diagnosis == getDiagnosisById(id)
    IN  IF diagnosis = <<>> THEN 404
        ELSE IF diagnosis[1].user_id # user.id /\ user.role # "admin" THEN 403
        ELSE IF report_type = "pdf" \/ report_type = "word" THEN 0
        ELSE 400

\* POST /:id/report arrives
PostReport(user, id, report_type) ==
    /\ last = NoLast
    /\ LET status == postReportCheck(user, id, report_type)
       IN  /\ last' = [op |-> "report", step |-> "check", user |-> user,
                       id |-> id, report_type |-> report_type,
                       done |-> status # 0, status |-> status,
                       reply |-> IF status = 0 THEN "none" ELSE "json"]
           /\ IF status = 0
              THEN /\ nreport' = nreport + 1
                   /\ LET diagnosis == getDiagnosisById(id)[1]
                          diagnosisData ==
                             [diagnosis EXCEPT
                                !.prediction_result =
                                    JSONparse(diagnosis.prediction_result)]
                      IN  reqs' = reqs \cup
                             {[n |-> nreport + 1, op |-> "report",
                               pc |-> "generating", user |-> user,
                               diagnosis |-> diagnosisData,
                               report_type |-> report_type,
                               filePath |->
                                  generateReportPath(diagnosisData, report_type),
                               content |->
                                  reportContent(diagnosisData, user, report_type)]}
              ELSE UNCHANGED <<nreport, reqs>>
    /\ UNCHANGED pages
    /\ UNCHANGED <<users, diagnoses, reports, uploads, reportFiles, nupload, now>>

\* /:id/report that records the report before it looks at the outcome
postReportFinishAlwaysRecord(r, gen) ==
    [status |-> IF gen = "finish" THEN 200 ELSE 500,
     reports |-> createReport(r.diagnosis.id, r.user.id, r.report_type, r.filePath),
     download_url |-> <<"/api/reports/", r.filePath>>]

\* the rest of the /:id/report handler once the generator settles
postReportFinish(r, gen) ==
    IF gen = "finish"
    THEN [status |-> 200,
          reports |-> createReport(r.diagnosis.id, r.user.id, r.report_type, r.filePath),
          download_url |-> <<"/api/reports/", r.filePath>>]
    ELSE [status |-> 500, reports |-> reports, download_url |-> <<>>]

\* /:id/report that also writes a link to the new report into the
\* DiagnosisRecord (UPDATE diagnoses SET notes = file_path)
PostReportWrittenLinking(r, gen) ==
    /\ last = NoLast
    /\ r.op = "report"
    /\ r.pc = "generating"
    /\ reportFiles' =
          IF gen = "finish" THEN writeFile(reportFiles, r.filePath, r.content)
          ELSE IF gen = "error_partial"
          THEN writeFile(reportFiles, r.filePath, PartialContent)
          ELSE reportFiles
    /\ LET res == postReportFinish(r, gen)
       IN  /\ reports' = res.reports
           /\ last' = [op |-> "report", step |-> "written", user |-> r.user,
                       id |-> r.diagnosis.id, report_type |-> r.report_type,
                       filePath |-> r.filePath, gen |-> gen,
                       done |-> TRUE, status |-> res.status, reply |-> "json",
                       download_url |-> res.download_url]
    /\ diagnoses' =
          IF gen = "finish"
          THEN [i \in 1..Len(diagnoses) |->
                   IF diagnoses[i].id = r.diagnosis.id
                   THEN [diagnoses[i] EXCEPT !.notes = "BaoGao"]
                   ELSE diagnoses[i]]
          ELSE diagnoses
    /\ reqs' = reqs \ {r}
    /\ UNCHANGED pages
    /\ UNCHANGED <<users, uploads, nupload, nreport, now>>

\* the write of the report file ends: stream 'finish' / writeFileSync returns,
\* or the write fails, with or without a partial file left behind
PostReportWritten(r, gen) ==
    /\ last = NoLast
    /\ r.op = "report"
    /\ r.pc = "generating"
    /\ reportFiles' =
          IF gen = "finish" THEN writeFile(reportFiles, r.filePath, r.content)
          ELSE IF gen = "error_partial"
          THEN writeFile(reportFiles, r.filePath, PartialContent)
          ELSE reportFiles
    /\ LET res == postReportFinish(r, gen)
       IN  /\ reports' = res.reports
           /\ last' = [op |-> "report", step |-> "written", user |-> r.user,
                       id |-> r.diagnosis.id, report_type |-> r.report_type,
                       filePath |-> r.filePath, gen |-> gen,
                       done |-> TRUE, status |-> res.status, reply |-> "json",
                       download_url |-> res.download_url]
    /\ reqs' = reqs \ {r}
    /\ UNCHANGED pages
    /\ UNCHANGED <<users, diagnoses, uploads, nupload, nreport, now>>

---------------------------------------------------------------------------
(* Static files: index.js *)

\* the URLs a client fetches: the download_url of a recorded report, and the
\* URL of a stored upload.  A URL is <<directory part, file name>>.
FetchUrls ==
    {<<"/api/reports/", reports[k].file_path>> : k \in 1..Len(reports)}
    \cup {<<"/uploads/images/", f>> : f \in uploads}

\* GET url on the app: express.static serves the uploads directory under
\* /uploads; /api/auth, /api/diagnosis, /api/users and /api/health have no
\* route for a file; every other URL gets Express's 404
appGet(url) ==
    IF url[1] = "/uploads/images/" /\ url[2] \in uploads
    THEN [status |-> 200, file |-> <<"uploads/images", url[2]>>]
    ELSE [status |-> 404, file |-> <<>>]

\* GET of a file URL
GetUrl(url) ==
    /\ last = NoLast
    /\ last' = [op |-> "fetch", url |-> url, done |-> TRUE,
                status |-> appGet(url).status, file |-> appGet(url).file]
    /\ UNCHANGED pages
    /\ UNCHANGED <<users, diagnoses, reports, uploads, reportFiles, reqs,
                   nupload, nreport, now>>

---------------------------------------------------------------------------
(* Routes: routes/auth.js *)

\* a password sent as a JSON number, and typeof v === 'string'
NumberPassword == "[number 123456]"
typeofString(v) == v # NumberPassword

\* the bodies of POST /register
RegisterBodies ==
    [username : {"admin", "zhangsan"}, password : {"pw123456", ""},
     name : {"ZhangSan"}, role : {Undefined, Null, "admin", "FaYi"}]

\* the bodies of POST /login
LoginBodies ==
    [username : {"admin", "zhangsan", ""},
     password : {"admin123", "pw123456", NumberPassword}]

\* SELECT ... FROM users WHERE username = ? ; <<>> when there is no row
getUserByUsername(username) == SelectSeq(users, LAMBDA u : u.username = username)

\* the destructuring default of the handler: role = 'forensic' applies to an
\* absent role only
roleOrDefault(role) == IF role = Undefined THEN "forensic" ELSE role

\* the checks of POST /register before the password is hashed:
\* the status answered at once, or 0 when the handler goes on
postRegisterCheck(body) ==
    IF ~TruthyStr(body.username) \/ ~TruthyStr(body.password) \/ ~TruthyStr(body.name)
    THEN 400
    ELSE IF getUserByUsername(body.username) # <<>> THEN 400
    ELSE 0

\* POST /register arrives
PostRegister(body) ==
    /\ last = NoLast
    /\ LET status == postRegisterCheck(body)
       IN  /\ last' = [op |-> "register", step |-> "check", body |-> body,
                       done |-> status # 0, status |-> status]
           /\ reqs' = IF status = 0
                      THEN reqs \cup {[op |-> "register", pc |-> "hashing",
                                       body |-> body,
                                       role |-> roleOrDefault(body.role)]}
                      ELSE reqs
    /\ UNCHANGED pages
    /\ UNCHANGED <<users, diagnoses, reports, uploads, reportFiles,
                   nupload, nreport, now>>

\* /register on a users table without the UNIQUE constraint on username
postRegisterFinishNoUnique(r) ==
    [status |-> 200,
     users |-> Append(users,
                 [id |-> Len(users) + 1, username |-> r.body.username,
                  password |-> bcryptHash(r.body.password),
                  name |-> r.body.name, role |-> r.role]),
     user |-> <<[id |-> Len(users) + 1, username |-> r.body.username,
                 name |-> r.body.name, role |-> r.role]>>]

\* the rest of the /register handler once bcrypt.hash settles: the INSERT
\* fails on the UNIQUE constraint when the username was taken meanwhile
postRegisterFinish(r) ==
    IF getUserByUsername(r.body.username) # <<>>
    THEN [status |-> 500, users |-> users, user |-> <<>>]
    ELSE [status |-> 200,
          users |-> Append(users,
                      [id |-> Len(users) + 1, username |-> r.body.username,
                       password |-> bcryptHash(r.body.password),
                       name |-> r.body.name, role |-> r.role]),
          user |-> <<[id |-> Len(users) + 1, username |-> r.body.username,
                      name |-> r.body.name, role |-> r.role]>>]

\* bcrypt.hash settles
PostRegisterHashed(r) ==
    /\ last = NoLast
    /\ r.op = "register"
    /\ r.pc = "hashing"
    /\ LET res == postRegisterFinish(r)
       IN  /\ users' = res.users
           /\ last' = [op |-> "register", step |-> "hashed", body |-> r.body,
                       done |-> TRUE, status |-> res.status, user |-> res.user]
    /\ reqs' = reqs \ {r}
    /\ UNCHANGED pages
    /\ UNCHANGED <<diagnoses, reports, uploads, reportFiles, nupload, nreport, now>>

\* the decisions of POST /login
postLogin(body) ==
    IF ~TruthyStr(body.username) \/ ~TruthyStr(body.password)
    THEN [status |-> 400, error |-> "QingShuRuYongHuMingHeMiMa", user |-> <<>>]
    ELSE LET user == getUserByUsername(body.username)
         IN  IF user = <<>>
             THEN [status |-> 401, error |-> "YongHuMingHuoMiMaCuoWu", user |-> <<>>]
             ELSE IF ~typeofString(body.password)
             THEN \* bcrypt.compare rejects: Illegal arguments
                  [status |-> 500, error |-> "DengLuShiBai", user |-> <<>>]
             ELSE IF ~bcryptCompare(body.password, user[1].password)
             THEN [status |-> 401, error |-> "YongHuMingHuoMiMaCuoWu", user |-> <<>>]
             ELSE [status |-> 200, error |-> "",
                   user |-> <<[id |-> user[1].id, username |-> user[1].username,
                               name |-> user[1].name, role |-> user[1].role]>>]

\* POST /login
PostLogin(body) ==
    /\ last = NoLast
    /\ last' = [op |-> "login", body |-> body, done |-> TRUE,
                status |-> postLogin(body).status, error |-> postLogin(body).error,
                user |-> postLogin(body).user]
    /\ UNCHANGED pages
    /\ UNCHANGED <<users, diagnoses, reports, uploads, reportFiles, reqs,
                   nupload, nreport, now>>

---------------------------------------------------------------------------
(* Start of the server on an empty database: initDefaultUsers of database.js *)

\* initDefaultUsers suspended at its first await: the admin account was
\* found missing and its password is being hashed
StartupAdmin == [op |-> "initDefaultUsers", pc |-> "admin"]
StartupForensic == [op |-> "initDefaultUsers", pc |-> "forensic"]

\* the state when the module has been loaded: the tables are empty, requests
\* are accepted while initDefaultUsers waits for bcrypt.hash
InitStartup ==
    /\ users = <<>>
    /\ diagnoses = <<>>
    /\ reports = <<>>
    /\ uploads = {}
    /\ reportFiles = <<>>
    /\ reqs = {StartupAdmin}
    /\ nupload = 0
    /\ nreport = 0
    /\ now = 0
    /\ pages = PagesInit
    /\ last = NoLast

\* initDefaultUsers inserts one default account and goes on to the next
\* one; an INSERT that fails on the UNIQUE constraint throws out of
\* initDefaultUsers (an unhandled rejection) and nothing more is inserted
InitDefaultUser(r, k, next) ==
    /\ last = NoLast
    /\ r \in reqs
    /\ LET thrown == getUserByUsername(initDefaultUsers[k].username) # <<>>
       IN  /\ users' = IF thrown THEN users
                       ELSE Append(users,
                               [initDefaultUsers[k] EXCEPT !.id = Len(users) + 1])
           /\ reqs' = (reqs \ {r}) \cup
                      (IF thrown \/ next = {} THEN {}
                       ELSE IF getUserByUsername(
                                  initDefaultUsers[k + 1].username) # <<>>
                       THEN {} ELSE next)
           /\ last' = [op |-> "initDefaultUsers", step |-> r.pc, done |-> TRUE,
                       thrown |-> thrown]
    /\ UNCHANGED pages
    /\ UNCHANGED <<diagnoses, reports, uploads, reportFiles, nupload, nreport, now>>

---------------------------------------------------------------------------
(* Specifications *)

\* the submission pipeline and the read routes, with the clock running
Next ==
    \/ Return
    \/ Tick
    \/ \E user \in authenticateToken, upload \in Uploads, body \in Bodies :
          nupload < MaxUploads /\ PostPredict(user, upload, body)
    \/ \E r \in reqs : PostPredictStored(r)
    \/ \E r \in reqs, py \in PyOutcomes : PostPredictCallback(r, py)
    \/ \E user \in authenticateToken : GetList(user)
    \/ \E user \in authenticateToken, id \in Ids : GetById(user, id)

Spec == Init /\ [][Next]_vars

\* submissions of one image whose classification succeeds or fails
Submit(bound) ==
    \/ \E user \in authenticateToken, body \in Bodies :
          nupload < bound /\ PostPredict(user, UploadJpg, body)
    \/ \E r \in reqs : PostPredictStored(r)
    \/ \E r \in reqs, py \in {PyOk, PyErr} : PostPredictCallback(r, py)

\* the report route over submitted diagnoses
NextReport ==
    \/ Return
    \/ Submit(MaxDiagnoses)
    \/ \E user \in authenticateToken, id \in 1..(MaxDiagnoses + 1),
          report_type \in ReportTypes :
          nreport < MaxReports /\ PostReport(user, id, report_type)
    \/ \E r \in reqs, gen \in GenOutcomes : PostReportWritten(r, gen)

SpecReport == Init /\ [][NextReport]_vars

\* the report route with the clock running
NextClock ==
    \/ Return
    \/ Tick
    \/ Submit(MaxDiagnoses)
    \/ \E user \in authenticateToken, id \in 1..(MaxDiagnoses + 1),
          report_type \in ReportTypes :
          nreport < MaxClockReports /\ PostReport(user, id, report_type)
    \/ \E r \in reqs, gen \in GenOutcomes : PostReportWritten(r, gen)

SpecClock == Init /\ [][NextClock]_vars

\* submissions of one image to a classifier of any behaviour
NextClassify ==
    \/ Return
    \/ \E user \in authenticateToken, body \in Bodies :
          nupload < MaxClassified /\ PostPredict(user, UploadJpg, body)
    \/ \E r \in reqs : PostPredictStored(r)
    \/ \E r \in reqs, py \in ClassifierOutcomes : PostPredictCallback(r, py)

SpecClassify == Init /\ [][NextClassify]_vars

\* submissions, with the scheduling of the event loop: a handler step that
\* was taken returns, the end of an upload stream and the exit of a
\* subprocess are events the loop takes up however many other events arrive
NextLive ==
    \/ Return
    \/ Submit(MaxLive)

Fairness ==
    /\ WF_vars(Return)
    /\ \A n \in 1..MaxLive :
          /\ SF_vars(\E r \in reqs : r.n = n /\ PostPredictStored(r))
          /\ SF_vars(\E r \in reqs, py \in {PyOk, PyErr} :
                        r.n = n /\ PostPredictCallback(r, py))

SpecLive == Init /\ [][NextLive]_vars /\ Fairness

\* reports and the download of files
NextDownload ==
    \/ Return
    \/ Submit(MaxDiagnoses)
    \/ \E user \in authenticateToken, id \in 1..MaxDiagnoses,
          report_type \in {"pdf", "word"} :
          nreport < MaxDownloadReports /\ PostReport(user, id, report_type)
    \/ \E r \in reqs, gen \in GenOutcomes : PostReportWritten(r, gen)
    \/ \E url \in FetchUrls : GetUrl(url)

SpecDownload == Init /\ [][NextDownload]_vars

\* registrations started and not yet answered
Registering == {r \in reqs : r.op = "register"}

\* registration and login
Accounts(bound, bodies, logins) ==
    \/ \E body \in bodies :
          /\ Len(users) + Cardinality(Registering) < Len(initDefaultUsers) + bound
          /\ PostRegister(body)
    \/ \E r \in reqs : PostRegisterHashed(r)
    \/ \E body \in logins : PostLogin(body)

NextAccounts ==
    \/ Return
    \/ Accounts(MaxRegistrations, RegisterBodies, LoginBodies)

SpecAccounts == Init /\ [][NextAccounts]_vars

\* registration and login from the moment the server starts
NextStartup ==
    \/ Return
    \/ InitDefaultUser(StartupAdmin, 1, {StartupForensic})
    \/ InitDefaultUser(StartupForensic, 2, {})
    \/ Accounts(MaxRegistrations, RegisterBodies, LoginBodies)

SpecStartup == InitStartup /\ [][NextStartup]_vars

\* every route: accounts, submissions, reads and reports
NextAll ==
    \/ Return
    \/ Accounts(MaxAllRegistrations,
                {b \in RegisterBodies : b.password # "" /\ b.role = Undefined},
                {b \in LoginBodies : b.username = "admin"})
    \/ Submit(MaxDiagnoses)
    \/ \E user \in authenticateToken : GetList(user)
    \/ \E user \in authenticateToken, id \in 1..(MaxDiagnoses + 1) : GetById(user, id)
    \/ \E user \in authenticateToken, id \in 1..(MaxDiagnoses + 1),
          report_type \in ReportTypes :
          nreport < MaxAllReports /\ PostReport(user, id, report_type)
    \/ \E r \in reqs, gen \in GenOutcomes : PostReportWritten(r, gen)

SpecAll == Init /\ [][NextAll]_vars

\* the analysis pages of the browser
NextPages ==
    \/ \E p \in AnalyzePages, f \in DroppedFiles : OnDrop(p, f)
    \/ \E p \in AnalyzePages : RemoveImage(p)
    \/ \E p \in AnalyzePages : HandleAnalyze(p)
    \/ \E p \in AnalyzePages : \E o \in Outcomes(p) : HandleAnalyzeSettled(p, o)

SpecPages == Init /\ [][NextPages]_vars

\* NursingAssessment with the form as the user has filled it
InitNursing ==
    /\ users = initDefaultUsers
    /\ diagnoses = <<>>
    /\ reports = <<>>
    /\ uploads = {}
    /\ reportFiles = <<>>
    /\ reqs = {}
    /\ nupload = 0
    /\ nreport = 0
    /\ now = 0
    /\ last = NoLast
    /\ \E form \in EnterableForms :
          pages = [PagesInit EXCEPT !.NursingAssessment.form = form]

NextNursing == CalculateScore

SpecNursing == InitNursing /\ [][NextNursing]_vars

---------------------------------------------------------------------------
(* Vocabulary of the properties *)

\* a handler step of route op, at its stage step, is taken
Handles(op, step) == last = NoLast /\ last'.op = op /\ last'.step = step

\* the subprocess exits with an error, emits no output, or its last message
\* has no predicted_class
ClassifierFails(py) ==
    \/ py.err
    \/ py.isNull
    \/ Len(py.results) = 0
    \/ py.results[Len(py.results)].kind # "object"
    \/ py.results[Len(py.results)].predicted_class \in {Null, ""}

\* the extensions and MIME types of the JPEG, PNG, TIFF and BMP formats
ImageExtensions ==
    { <<".","j","p","g">>, <<".","j","p","e","g">>, <<".","p","n","g">>,
      <<".","t","i","f">>, <<".","t","i","f","f">>, <<".","b","m","p">> }
ImageMimeTypes ==
    { <<"i","m","a","g","e","/","j","p","e","g">>,
      <<"i","m","a","g","e","/","p","n","g">>,
      <<"i","m","a","g","e","/","t","i","f","f">>,
      <<"i","m","a","g","e","/","b","m","p">> }
DisallowedType(upload) ==
    \/ toLowerCase(extname(upload.originalname)) \notin ImageExtensions
    \/ upload.mimetype \notin ImageMimeTypes

\* a record with this id is stored; the caller owns it or is an admin
Stored(id) == \E d \in Range(diagnoses) : d.id = id
MayAccess(user, id) ==
    \E d \in Range(diagnoses) : d.id = id /\ (d.user_id = user.id \/ user.role = "admin")

---------------------------------------------------------------------------
(* Properties *)

\* C1: whenever predictImage rejects during POST /predict (the subprocess
\* exits with an error, emits no output, or its last message has no
\* predicted_class), the handler answers 500 with an error message and the
\* diagnoses table is the same after the step as before it.
C1_RejectedPredictionStoresNothing ==
    [][ (Handles("predict", "callback") /\ ClassifierFails(last'.py))
        => (last'.done /\ last'.status = 500 /\ last'.error # ""
            /\ diagnoses' = diagnoses) ]_vars

\* C1 happens: a classification fails after an earlier one was stored
C1_Witness ==
    /\ last.op = "predict"
    /\ last.step = "callback"
    /\ ClassifierFails(last.py)
    /\ last.status = 500
    /\ Len(diagnoses) = 1

\* C2: whenever the generation of the PDF or Word report fails during
\* POST /:id/report, the handler answers 500 and the reports table is the
\* same after the step as before it.
C2_FailedGenerationRecordsNothing ==
    [][ (Handles("report", "written") /\ last'.gen # "finish")
        => (last'.done /\ last'.status = 500 /\ reports' = reports) ]_vars

\* C2 happens: a generation fails after an earlier report was recorded
C2_Witness ==
    /\ last.op = "report"
    /\ last.step = "written"
    /\ last.gen # "finish"
    /\ last.status = 500
    /\ Len(reports) = 1

\* C3 as stated: a POST /:id/report whose report_type is neither 'pdf' nor
\* 'word' (absent included) always returns 400 and creates no ReportRecord
\* and no report file, for every diagnosis id and every caller.
C3_BadTypeAlways400 ==
    [][ (Handles("report", "check") /\ last'.report_type \notin {"pdf", "word"})
        => (last'.done /\ last'.status = 400
            /\ reports' = reports /\ reportFiles' = reportFiles /\ reqs' = reqs) ]_vars

\* C3 amended: such a request is answered at once with 404 when no record
\* has the id, with 403 when the record exists and the caller is neither its
\* owner nor an admin, and with 400 otherwise; in every case it creates no
\* ReportRecord and no report file and starts no generation.
C3_BadTypeRejected ==
    [][ (Handles("report", "check") /\ last'.report_type \notin {"pdf", "word"})
        => (/\ last'.done
            /\ last'.status = IF ~Stored(last'.id) THEN 404
                              ELSE IF ~MayAccess(last'.user, last'.id) THEN 403
                              ELSE 400
            /\ reports' = reports /\ reportFiles' = reportFiles /\ reqs' = reqs) ]_vars

\* C3 happens: the owner or an admin asks for an unsupported type and gets 400
C3_Witness ==
    /\ last.op = "report"
    /\ last.step = "check"
    /\ last.report_type \notin {"pdf", "word"}
    /\ MayAccess(last.user, last.id)
    /\ last.status = 400

\* C4: every POST /predict that fails upload validation (no file, a file of
\* a disallowed type, or a file larger than 10 MiB) is answered with status
\* 400 and creates no DiagnosisRecord.
C4_InvalidUpload400 ==
    [][ (/\ last = NoLast
         /\ last'.op = "predict"
         /\ last'.done
         /\ \/ ~last'.upload.present
            \/ DisallowedType(last'.upload)
            \/ last'.upload.size > 10 * 1024 * 1024)
        => (last'.status = 400 /\ diagnoses' = diagnoses) ]_vars

\* C5: for any upload that exceeds 10 MiB or is of a disallowed type, the
\* request is rejected and no file stored for it is in the uploads directory
\* once the request is answered.
C5_RejectedUploadLeavesNoFile ==
    (/\ last.op = "predict"
     /\ last.done
     /\ last.upload.present
     /\ (last.upload.size > 10 * 1024 * 1024 \/ DisallowedType(last.upload)))
    => (/\ last.status \in {400, 500}
        /\ last.step # "upload" => last.path \notin uploads)

\* C6: GET /list called by a user whose role is not admin returns only
\* records whose user_id is the caller's own id.
C6_ListOnlyOwn ==
    (last.op = "list" /\ last.user.role # "admin")
    => \A i \in 1..Len(last.data) : last.data[i].user_id = last.user.id

\* C6 happens: a non-admin lists its records while another user's are stored
C6_Witness ==
    /\ last.op = "list"
    /\ last.user.role # "admin"
    /\ Len(last.data) >= 1
    /\ \E d \in Range(diagnoses) : d.user_id # last.user.id

\* C7: GET /list called by an admin returns every stored DiagnosisRecord,
\* once each, with the display name of the submitting user as doctor_name.
C7_AdminListsAll ==
    (last.op = "list" /\ last.user.role = "admin")
    => /\ Len(last.data) = Len(diagnoses)
       /\ \A d \in Range(diagnoses) :
             \E i \in 1..Len(last.data) :
                /\ last.data[i].id = d.id
                /\ last.data[i].user_id = d.user_id
                /\ last.data[i].image_path = d.image_path
                /\ last.data[i].prediction_result = d.prediction_result
                /\ \E u \in Range(users) :
                      u.id = d.user_id /\ last.data[i].doctor_name = u.name

\* C7 happens: an admin lists two records, one of them another user's
C7_Witness ==
    /\ last.op = "list"
    /\ last.user.role = "admin"
    /\ Len(last.data) = 2
    /\ \E d \in Range(diagnoses) : d.user_id # last.user.id

\* C8: GET /:id returns 404 when no record has the id, 403 when the record
\* exists and the caller is neither its owner nor an admin, and the record
\* itself exactly when the caller is its owner or an admin.
C8_GetByIdStatus ==
    (last.op = "get")
    => /\ ~Stored(last.id) => (last.status = 404 /\ last.data = <<>>)
       /\ (Stored(last.id) /\ ~MayAccess(last.user, last.id))
             => (last.status = 403 /\ last.data = <<>>)
       /\ MayAccess(last.user, last.id)
             => (/\ last.status = 200
                 /\ Len(last.data) = 1
                 /\ last.data[1] \in Range(diagnoses)
                 /\ last.data[1].id = last.id)

\* C8 happens: a non-admin asks for another user's record and gets 403
C8_Witness ==
    /\ last.op = "get"
    /\ Stored(last.id)
    /\ ~MayAccess(last.user, last.id)
    /\ last.status = 403

\* C9: POST /:id/report by a caller who is neither the owner of the record
\* nor an admin returns 403 at once and creates neither a report file nor a
\* ReportRecord, and starts no generation.
C9_ForbiddenReportNoEffect ==
    [][ (/\ Handles("report", "check")
         /\ Stored(last'.id)
         /\ ~MayAccess(last'.user, last'.id))
        => (last'.done /\ last'.status = 403
            /\ reports' = reports /\ reportFiles' = reportFiles /\ reqs' = reqs) ]_vars

\* C9 happens: a non-admin asks for a PDF report of another user's record
C9_Witness ==
    /\ last.op = "report"
    /\ last.step = "check"
    /\ last.report_type = "pdf"
    /\ Stored(last.id)
    /\ ~MayAccess(last.user, last.id)
    /\ last.status = 403

\* C10: any two successful report generations write to different paths, so
\* no two ReportRecords name the same file.
C10_ReportPathsDistinct ==
    \A i, j \in 1..Len(reports) :
        i # j => reports[i].file_path # reports[j].file_path

\* the record with this id
DiagnosisOf(id) == CHOOSE d \in Range(diagnoses) : d.id = id

\* the number of hundredths a text of the form [-]N.NN stands for
Hundredths(t) ==
    (IF t.neg THEN 0 - 1 ELSE 1) * (t.whole * 100 + t.d1 * 10 + t.d2)

\* text is percentage-with-two-decimals of confidence: N.NN% with two decimal
\* digits, the nearest number of hundredths of a percent
IsPercentOf(text, confidence) ==
    /\ Len(text) = 2
    /\ text[2] = "%"
    /\ text[1].whole >= 0
    /\ text[1].d1 \in 0..9
    /\ text[1].d2 \in 0..9
    /\ Hundredths(text[1]) * 1000 - confidence * 100 \in (0 - 500)..500

\* C11: every report generated for a record is a file that contains the
\* record's primary label and its confidence as a percentage with two decimal
\* places; a Word report generated after a PDF report of the same record is
\* written to a different file and leaves the PDF file as it was.
C11_PdfThenWordTwoFiles ==
    [][ (Handles("report", "written") /\ last'.gen = "finish")
        => LET d == DiagnosisOf(last'.id)
               path == last'.filePath
           IN  /\ path \in DOMAIN reportFiles'
               /\ reportFiles'[path].format =
                     (IF last'.report_type = "pdf" THEN "pdf" ELSE "docx")
               /\ JSONstringify(reportFiles'[path].ZhuYaoZhenDuan) = d.prediction_result
               /\ IsPercentOf(reportFiles'[path].ZhiXinDu, d.confidence)
               /\ \A k \in 1..Len(reports) :
                     (/\ last'.report_type = "word"
                      /\ reports[k].diagnosis_id = d.id
                      /\ reports[k].report_type = "pdf")
                     => /\ reports[k].file_path # path
                        /\ reports[k].file_path \in DOMAIN reportFiles'
                        /\ reportFiles'[reports[k].file_path]
                              = reportFiles[reports[k].file_path] ]_vars

\* C11 happens: a Word report was just written for a record that already has
\* a PDF report, and both files are in the reports directory
C11_Witness ==
    /\ last.op = "report"
    /\ last.step = "written"
    /\ last.gen = "finish"
    /\ last.report_type = "word"
    /\ \E k \in 1..Len(reports) :
          /\ reports[k].diagnosis_id = last.id
          /\ reports[k].report_type = "pdf"
          /\ reports[k].file_path \in DOMAIN reportFiles
          /\ reportFiles[reports[k].file_path].format = "pdf"
    /\ last.filePath \in DOMAIN reportFiles
    /\ reportFiles[last.filePath].format = "docx"

\* C12: in every reachable state each ReportRecord's diagnosis_id is the id
\* of a stored DiagnosisRecord, and every step that inserts a DiagnosisRecord
\* inserts it with an image_path that names a file present in the uploads
\* directory at that moment.
C12_RecordsReferenceExisting ==
    /\ [](\A k \in 1..Len(reports) : Stored(reports[k].diagnosis_id))
    /\ [][ \A i \in (Len(diagnoses) + 1)..Len(diagnoses') :
              /\ diagnoses'[i].image_path \in uploads
              /\ diagnoses'[i].image_path \in uploads' ]_vars

\* C12 happens: a report was recorded for a stored record whose image is in
\* the uploads directory
C12_Witness ==
    /\ Len(reports) >= 1
    /\ Len(diagnoses) >= 1
    /\ Stored(reports[1].diagnosis_id)
    /\ diagnoses[1].image_path \in uploads

\* seq is old with at most one row appended
AppendsAtMostOne(old, seq) ==
    /\ Len(seq) \in {Len(old), Len(old) + 1}
    /\ SubSeq(seq, 1, Len(old)) = old

\* C13: no step of any route (predict, list, get-by-id, report, register,
\* login) removes or changes a stored DiagnosisRecord; a step of the report
\* route leaves the diagnoses and users tables unchanged and adds at most one
\* row to the reports table.
C13_DiagnosisRecordsImmutable ==
    [][ /\ Len(diagnoses') >= Len(diagnoses)
        /\ \A i \in 1..Len(diagnoses) : diagnoses'[i] = diagnoses[i]
        /\ (last = NoLast /\ last'.op = "report")
              => (/\ diagnoses' = diagnoses
                  /\ users' = users
                  /\ AppendsAtMostOne(reports, reports')
                  /\ Len(reports') > Len(reports) => last'.status = 200) ]_vars

\* C13 happens: a report was recorded for a stored record after a user registered
C13_Witness ==
    /\ last.op = "report"
    /\ last.step = "written"
    /\ last.status = 200
    /\ Len(reports) = 1
    /\ Len(diagnoses) = 1
    /\ Len(users) = Len(initDefaultUsers) + 1

\* C14: once a POST /predict whose classification failed, or a report request
\* whose generation failed, is answered, no row and no file written for that
\* request remains: the stored upload is not in the uploads directory, the
\* report file is not in the reports directory.
C14_FailedRequestLeavesNothing ==
    /\ (last.op = "predict" /\ last.step = "callback" /\ last.status = 500)
          => (/\ last.path \notin uploads
              /\ \A d \in Range(diagnoses) : d.image_path # last.path)
    /\ (last.op = "report" /\ last.step = "written" /\ last.status = 500)
          => (/\ last.filePath \notin DOMAIN reportFiles
              /\ \A k \in 1..Len(reports) : reports[k].file_path # last.filePath)

\* C15: every failure of the predict, list, get-by-id and report routes,
\* errors raised by the upload middleware included, is answered with a JSON
\* body of the form {error: message}.
C15_FailuresAreJsonErrors ==
    (/\ last.op \in {"predict", "list", "get", "report"}
     /\ last.done
     /\ last.status >= 400)
    => last.reply = "json"

\* the lookup table of the 15 known labels
CategoryTable ==
    [l \in {"FeiChuXue", "FeiShuiZhong", "FeiXueShuan", "FeiYan"} |-> "FeiBuBingBian"]
    @@ [l \in {"GuanXinBing", "XinJiXianWeiDuanLie", "XinJiYan"} |-> "XinXueGuanBingBian"]
    @@ [l \in {"NaoChuXue", "NaoShuiZhong", "NaoXueGuanJiXing",
               "NaoZhuWangMoXiaQiangYuXue"} |-> "NaoBuBingBian"]
    @@ ("GanZhiFangBianXing" :> "GanZangBingBian")
    @@ ("PiXiaoDongMaiBoLiYangGaiBian" :> "PiZangBingBian")
    @@ ("ShenXiaoQiuXianWeiHua" :> "ShenZangBingBian")
    @@ ("YiXianYan" :> "YiXianBingBian")

\* the message predictImage read: the last one the subprocess printed
LastMessage(py) == py.results[Len(py.results)]

\* the category a message calls for: the supplied one, else the table entry
\* of a known label, else the default
ExpectedCategory(m) ==
    IF m.category \notin {Null, ""} THEN m.category
    ELSE IF m.predicted_class \in DOMAIN CategoryTable
    THEN CategoryTable[m.predicted_class]
    ELSE "QiTaBingBian"

\* C16: whenever predictImage resolves, diagnosis_type is the category the
\* classifier supplied when it supplied one, else the table entry of the
\* label when the label is one of the 15 known labels, else 'QiTaBingBian'.
C16_DiagnosisTypeFromCategoryOrTable ==
    (last.op = "predict" /\ last.step = "callback" /\ last.prediction.ok)
    => last.prediction.value.diagnosis_type = ExpectedCategory(LastMessage(last.py))

\* C17: whenever predictImage resolves, the confidence returned to the
\* client lies in [0,1], and so does the confidence of every stored
\* DiagnosisRecord, whatever the classifier emitted.
C17_ConfidenceInUnitInterval ==
    /\ (last.op = "predict" /\ last.step = "callback" /\ last.prediction.ok)
          => last.prediction.value.confidence \in 0..100000
    /\ \A d \in Range(diagnoses) : d.confidence \in 0..100000

\* C18: GET /list returns the records newest first: of any two records in
\* the list the one inserted later (the one with the larger id) comes first,
\* also when both were inserted within the same second.
C18_ListNewestFirst ==
    (last.op = "list")
    => \A i, j \in 1..Len(last.data) :
          i < j => last.data[i].id > last.data[j].id

\* C19: the upload filter accepts a file exactly when its extension and its
\* MIME type are those of a JPEG, PNG, TIFF or BMP image: '.tif' with
\* image/tiff is accepted, and a name or type that merely contains 'jpeg',
\* 'jpg', 'png', 'tiff' or 'bmp' is rejected.
C19_FilterAcceptsExactlyImages ==
    (last.op = "predict" /\ last.step = "upload" /\ last.upload.present)
    => ((last.status = 0) <=> ~DisallowedType(last.upload))

\* C20: in every reachable state the role of every UserAccount is one of the
\* two roles 'forensic' and 'admin', whatever role POST /register was sent.
C20_RolesEnumerated ==
    \A u \in Range(users) : u.role \in {"forensic", "admin"}

\* C21: under every interleaving of POST /predict requests, a request that
\* succeeds appends exactly one DiagnosisRecord, whose user_id, image_path,
\* prediction_result and confidence are those of that request and whose id is
\* the diagnosis_id of the response; no other record has the request's image.
C21_RecordBelongsToItsRequest ==
    [][ (Handles("predict", "callback") /\ last'.status = 200)
        => /\ Len(diagnoses') = Len(diagnoses) + 1
           /\ SubSeq(diagnoses', 1, Len(diagnoses)) = diagnoses
           /\ LET d == diagnoses'[Len(diagnoses')]
                  m == LastMessage(last'.py)
              IN  /\ d.id = last'.diagnosis_id
                  /\ d.user_id = last'.user.id
                  /\ d.image_path = last'.path
                  /\ last'.path.ext = extname(last'.upload.originalname)
                  /\ d.prediction_result = JSONstringify(m.predicted_class)
                  /\ d.confidence = last'.prediction.value.confidence
                  /\ d.confidence =
                        (IF TruthyNum(m.confidence) THEN m.confidence[1]
                         ELSE IF TruthyNum(m.probability) THEN m.probability[1]
                         ELSE 0)
           /\ \A i \in 1..Len(diagnoses) :
                 /\ diagnoses[i].image_path # last'.path
                 /\ diagnoses[i].id # last'.diagnosis_id ]_vars

\* C21 happens: two requests of different users overlapped, and the one
\* uploaded second was classified and stored first
C21_Witness ==
    /\ last.op = "predict"
    /\ last.step = "callback"
    /\ last.status = 200
    /\ Len(diagnoses) = 2
    /\ diagnoses[1].image_path.uuid = 2
    /\ diagnoses[2].image_path.uuid = 1
    /\ diagnoses[1].user_id # diagnoses[2].user_id
    /\ last.path = diagnoses[2].image_path

\* the request whose upload was stored as the n-th is suspended in predictImage
Predicting(n) == \E r \in reqs : r.op = "predict" /\ r.n = n /\ r.pc = "predicting"

\* the response to that request was just sent
Answered(n) ==
    last.op = "predict" /\ last.step = "callback" /\ last.done /\ last.path.uuid = n

\* C22: a POST /predict request that waits for its subprocess is answered
\* once the subprocess has exited, and answered once only: while the request
\* waits no DiagnosisRecord holds its image, and the step that answers it is
\* the step that ends it.
C22_PredictAnsweredOnce ==
    /\ [](\A r \in reqs : r.op = "predict"
             => \A d \in Range(diagnoses) : d.image_path # r.path)
    /\ [][ (Handles("predict", "callback") \/ Handles("predict", "stored"))
           => /\ \E r \in reqs : r.op = "predict" /\ r.path = last'.path
              /\ last'.done => \A r \in reqs' : r.path # last'.path
              /\ ~last'.done => diagnoses' = diagnoses ]_vars
    /\ \A n \in 1..MaxLive : Predicting(n) ~> Answered(n)

\* C22 happens: a request was answered while another one still waits for
\* its subprocess
C22_Witness ==
    /\ last.op = "predict"
    /\ last.step = "callback"
    /\ last.done
    /\ \E r \in reqs : r.op = "predict" /\ r.pc = "predicting"

\* C23: a GET to the download_url returned by a successful POST /:id/report
\* is answered with the file that was written to the reports directory.
C23_DownloadUrlServesReport ==
    (/\ last.op = "fetch"
     /\ last.url[1] = "/api/reports/"
     /\ \E k \in 1..Len(reports) : reports[k].file_path = last.url[2]
     /\ last.url[2] \in DOMAIN reportFiles)
    => (last.status = 200 /\ last.file = <<"reports", last.url[2]>>)

\* the sections of a generated document: both generators always write the
\* title, the metadata, the patient information, the diagnosis, the
\* disclaimer and the footer; the examiner note is there when the document
\* has a note paragraph
Sections(content) ==
    {"title", "metadata", "patient", "diagnosis", "disclaimer", "footer"}
    \cup (IF content.YiShiBeiZhu # <<>> THEN {"note"} ELSE {})

\* C24: for every DiagnosisRecord the Word report has the sections of the
\* PDF report and no others, also when the record has no notes.
C24_WordSectionsMatchPdf ==
    \A p, q \in DOMAIN reportFiles :
        (/\ reportFiles[p].format = "pdf"
         /\ reportFiles[q].format = "docx"
         /\ reportFiles[p].BaoGaoBianHao = reportFiles[q].BaoGaoBianHao)
        => Sections(reportFiles[q]) = Sections(reportFiles[p])

\* C25: the record stored for a successful classification holds the
\* serialized result: deserializing prediction_result gives back the label,
\* and every ranked alternative the classifier returned is in the text.
C25_StoredResultHoldsAlternatives ==
    (last.op = "predict" /\ last.step = "callback" /\ last.status = 200)
    => LET d == DiagnosisOf(last.diagnosis_id)
           m == LastMessage(last.py)
       IN  /\ JSONparse(d.prediction_result) = m.predicted_class
           /\ \A k \in 1..Len(m.all_predictions) :
                 \E i \in 1..Len(d.prediction_result) :
                    d.prediction_result[i] = m.all_predictions[k].label

\* C26: in every reachable state no two UserAccounts have the same username,
\* also when registrations for one username overlap with each other or with
\* the creation of the default accounts.
C26_UsernamesUnique ==
    \A i, j \in 1..Len(users) : i # j => users[i].username # users[j].username

\* C26 happens: a registration passed the existence check and found the
\* username taken when it came to insert
C26_Witness ==
    /\ last.op = "register"
    /\ last.step = "hashed"
    /\ last.status = 500
    /\ \E u \in Range(users) : u.username = last.body.username

\* C27: a POST /register that finds its username taken, at the existence
\* check or at the insert, is answered 400 and leaves the users table as it is.
C27_TakenUsername400 ==
    [][ (/\ last = NoLast
         /\ last'.op = "register"
         /\ last'.done
         /\ last'.body.password # ""
         /\ \E u \in Range(users) : u.username = last'.body.username)
        => (last'.status = 400 /\ users' = users) ]_vars

\* C28: POST /login issues a token only for an existing username with the
\* password of its stored hash, and every other attempt that names a
\* username and a password gets one and the same response (401 with the same
\* error), whether the username exists or not.
C28_LoginFailuresIndistinguishable ==
    (last.op = "login" /\ last.body.username # "" /\ last.body.password # "")
    => /\ last.user # <<>>
             => \E u \in Range(users) :
                   /\ u.username = last.body.username
                   /\ u.password = <<"bcrypt", last.body.password>>
       /\ last.user = <<>>
             => (last.status = 401 /\ last.error = "YongHuMingHuoMiMaCuoWu")

\* a request that got no response, or a response whose status is not 2xx
RequestFailed(o) == ~o.received \/ o.status \notin 200..299

\* C29: on the ForensicClinical and PathologyAI pages, when the request of
\* handleAnalyze fails no diagnosis appears that was not displayed before
\* (result stays what it was: null after a drop), and loading is false again
\* when handleAnalyze ends, whether it succeeded or failed
C29_ResultOnlyFromSuccess ==
    [][\A p \in AnalyzePages :
          (pages'[p].request.state = "settled"
             /\ pages'[p].request # pages[p].request)
          => /\ ~pages'[p].loading
             /\ RequestFailed(pages'[p].request)
                   => (truthy(pages'[p].result)
                          => pages'[p].result = pages[p].result)]_vars

\* the four levels calculateScore can name
Levels == {"YiJiHuLiYiLai", "ErJiHuLiYiLai", "SanJiHuLiYiLai", "SiJiHuLiYiLai"}

\* the forms the onChange handlers of the inputs can make of a form: every
\* field keeps its value or takes a value its input offers
Editable(form) ==
    {g \in EnterableForms :
        \A k \in Range(FormKeys) :
           g[k] = form[k] \/ g[k] \in (IF k = "age" THEN Ages ELSE Selected)}

\* C30: for each of the four nursing-dependency levels the user can fill the
\* form completely (age and six items) so that calculateScore reports that
\* level
C30_EveryLevelAttainable ==
    \A lv \in Levels :
       \E form \in Editable(pages.NursingAssessment.form) :
          everyFilled(form) /\ calculateScore(form).level = lv

====
